---- MODULE Spec2Model ----
(***************************************************************************)
(* Model of the inline / non-inline C program dataset tools:               *)
(*   create_dataset.py  pairing, record building, dataset writing          *)
(*   view_dataset.py    dataset loading, marker scanning, browsing         *)
(*                                                                         *)
(* Texts are sequences of atoms.  An atom stands for one character or for  *)
(* one fixed literal the code searches for:                                *)
(*   "NL" newline, "SP" blank, "x" any other character,                    *)
(*   "MARK" the literal "/* INLINED */", "VAR" the literal "/* variant",   *)
(*   "/*" a comment opener that is neither, "//" a line comment opener,    *)
(*   "malloc" the literal malloc.                                          *)
(***************************************************************************)
EXTENDS Integers, Sequences, FiniteSets, TLC

VARIABLES
    scan_pc,        \* find_inlined_sections: "off", "call", "loop", "done"
    scan_code,      \* its argument
    scan_lines,     \* lines = code.split("\n")
    scan_i,         \* i (0-based, as in the code)
    scan_sections,  \* sections
    scan_steps,     \* the iterations of the outer loop this call has made
    scan_calls,     \* the calls of find_inlined_sections on scan_code so far
    scan_prev       \* what the call before this one returned

scanVars == <<scan_pc, scan_code, scan_lines, scan_i, scan_sections,
              scan_steps, scan_calls, scan_prev>>

VARIABLES
    build_pc,       \* create_dataset.main: "off", "start", "find", "loop", "save_json",
                    \* "save_jsonl", "save_parquet", "finish", "done", "crashed"
    files,          \* the input directory: file name -> text
    unreadable,     \* the files that cannot be read any more when the build opens them
    pandas_ok,      \* whether pandas and pyarrow can be imported
    formats,        \* args.format
    pairs,          \* pairs
    dataset,        \* dataset
    clock,          \* the readings of datetime.now() so far
    written,        \* the output files: format -> text
    attempted,      \* the formats whose save function has been called
    out             \* what the build has printed

buildVars == <<build_pc, files, unreadable, pandas_ok, formats, pairs, dataset, clock,
               written, attempted, out>>

VARIABLES
    entry_pc,       \* create_dataset_entry called on its own: "off", "call", "done"
    entry_after,    \* the text read from inline_path
    entry_before,   \* the text read from noinline_path
    entry_result    \* the dict it returns

entryVars == <<entry_pc, entry_after, entry_before, entry_result>>

VARIABLES
    rt_pc,          \* write then read back: "off", "save_json", "save_jsonl",
                    \* "load_json", "load_jsonl", "done"
    rt_data,        \* the dataset given to save_json and save_jsonl
    rt_files,       \* the files written: path -> text
    rt_json,        \* load_dataset of the .json file
    rt_jsonl        \* load_dataset of the .jsonl file

rtVars == <<rt_pc, rt_data, rt_files, rt_json, rt_jsonl>>

VARIABLES
    view_pc,        \* view_dataset.main: "off", "start", "load", "dispatch", "browse",
                    \* "done", "crashed"
    view_files,     \* the dataset files present: path -> text
    view_request,   \* --dataset as given
    view_mode,      \* "interactive", "entry" or "all"
    view_entry,     \* --entry
    view_path,      \* args.dataset
    view_data,      \* dataset
    current,        \* current of interactive_mode
    view_cmd,       \* cmd of the last iteration of the browsing loop
    view_last       \* what the last step printed last

viewVars == <<view_pc, view_files, view_request, view_mode, view_entry, view_path,
              view_data, current, view_cmd, view_last>>

vars == <<scanVars, buildVars, entryVars, rtVars, viewVars>>

\* what a program leaves alone: the variables of the other programs
notScan == <<buildVars, entryVars, rtVars, viewVars>>
notBuild == <<scanVars, entryVars, rtVars, viewVars>>
notEntry == <<scanVars, buildVars, rtVars, viewVars>>
notRt == <<scanVars, buildVars, entryVars, viewVars>>
notView == <<scanVars, buildVars, entryVars, rtVars>>

-----------------------------------------------------------------------------
(* Bounds *)

MaxScanLen == 5
MaxUnreadable == 1
MaxFileLen == 3
MaxRtLen == 1
MaxRtRecords == 2
MaxViewRecords == 3
MaxCmdLen == 2
MaxRescanLen == 4
MaxCalls == 2

-----------------------------------------------------------------------------
(* Text helpers: what the Python string methods do on atom sequences *)

RECURSIVE TextsUpTo(_, _)
TextsUpTo(alphabet, n) ==
    IF n = 0 THEN {<<>>}
    ELSE LET shorter == TextsUpTo(alphabet, n - 1)
         IN  shorter \cup {Append(t, c) : t \in {s \in shorter : Len(s) = n - 1},
                                          c \in alphabet}

\* str.count(atom)
RECURSIVE Count(_, _)
Count(text, atom) ==
    IF text = <<>> THEN 0
    ELSE (IF Head(text) = atom THEN 1 ELSE 0) + Count(Tail(text), atom)

\* str.split("\n"): always at least one line; a trailing newline gives a last empty line
RECURSIVE SplitLines(_)
SplitLines(text) ==
    IF \A k \in DOMAIN text : text[k] # "NL" THEN <<text>>
    ELSE LET p == CHOOSE k \in DOMAIN text :
                      text[k] = "NL" /\ \A j \in 1..(k - 1) : text[j] # "NL"
         IN  <<SubSeq(text, 1, p - 1)>> \o SplitLines(SubSeq(text, p + 1, Len(text)))

\* "\n".join(lines)
RECURSIVE JoinLines(_)
JoinLines(ls) ==
    IF ls = <<>> THEN <<>>
    ELSE IF Len(ls) = 1 THEN ls[1]
    ELSE ls[1] \o <<"NL">> \o JoinLines(Tail(ls))

IsSpace(c) == c \in {"SP", "NL"}

\* str.strip()
RECURSIVE LStrip(_)
LStrip(s) == IF s # <<>> /\ IsSpace(Head(s)) THEN LStrip(Tail(s)) ELSE s

RECURSIVE RStrip(_)
RStrip(s) ==
    IF s # <<>> /\ IsSpace(s[Len(s)]) THEN RStrip(SubSeq(s, 1, Len(s) - 1)) ELSE s

Strip(s) == RStrip(LStrip(s))

\* s.startswith("//")
StartsWithLineComment(s) == s # <<>> /\ Head(s) = "//"

\* s.startswith("/*"): the marker and the variant literal begin with "/*" too
StartsWithCommentOpen(s) == s # <<>> /\ Head(s) \in {"/*", "MARK", "VAR"}

\* "malloc" in line
ContainsMalloc(line) == \E k \in DOMAIN line : line[k] = "malloc"

\* a mutant of ContainsMarker: only a line that begins with the marker counts
ContainsMarkerAtStart(line) == Strip(line) # <<>> /\ Head(Strip(line)) = "MARK"

\* "/* INLINED */" in line
ContainsMarker(line) == \E k \in DOMAIN line : line[k] = "MARK"

-----------------------------------------------------------------------------
(* create_dataset.py: create_dataset_entry *)

DigitAtoms == <<"0", "1", "2", "3", "4", "5", "6", "7", "8", "9">>

RECURSIVE DecimalDigits(_)
DecimalDigits(n) ==
    IF n < 10 THEN <<DigitAtoms[n + 1]>>
    ELSE Append(DecimalDigits(n \div 10), DigitAtoms[(n % 10) + 1])

\* a mutant of CountNewlines: the number of lines len(text.split("\n"))
CountSplitLines(text) == Len(SplitLines(text))

\* text.count("\n")
CountNewlines(text) == Count(text, "NL")

\* datetime.isoformat() of the n-th clock reading, as a text
IsoFormat(now) == <<"T">> \o DecimalDigits(now)

\* the record built from the two texts read (read_file is modelled where it is called)
CreateDatasetEntry(after_code, before_code, basename, idx, now) ==
    LET after_lines   == CountNewlines(after_code)
        before_lines  == CountNewlines(before_code)
        inlined_count == Count(after_code, "MARK")
        variant_count == Count(after_code, "VAR")
    IN  [id                |-> idx,
         filename          |-> basename,
         before            |-> before_code,
         after             |-> after_code,
         before_lines      |-> before_lines,
         after_lines       |-> after_lines,
         inlined_ops_count |-> inlined_count,
         variant_count     |-> variant_count,
         line_diff         |-> after_lines - before_lines,
         created_at        |-> IsoFormat(now)]

\* the keys of a record, in the order the dict literal gives them
FieldOrder ==
    <<"id", "filename", "before", "after", "before_lines", "after_lines",
      "inlined_ops_count", "variant_count", "line_diff", "created_at">>

IntFields ==
    {"id", "before_lines", "after_lines", "inlined_ops_count", "variant_count", "line_diff"}

-----------------------------------------------------------------------------
(* json.dump / json.dumps as create_dataset.py calls them (ensure_ascii=False) *)

DumpsInt(i) == IF i < 0 THEN <<"-">> \o DecimalDigits(0 - i) ELSE DecimalDigits(i)

\* a mutant of EscapeChar: the newline is written as it is
EscapeCharRawNewline(c) ==
    CASE c = "QT" -> <<"BS", "QT">>
      [] c = "BS" -> <<"BS", "BS">>
      [] OTHER    -> <<c>>

\* the JSON string escape of one character
EscapeChar(c) ==
    CASE c = "QT" -> <<"BS", "QT">>
      [] c = "BS" -> <<"BS", "BS">>
      [] c = "NL" -> <<"BS", "n">>
      [] OTHER    -> <<c>>

RECURSIVE EscapeText(_)
EscapeText(t) == IF t = <<>> THEN <<>> ELSE EscapeChar(Head(t)) \o EscapeText(Tail(t))

DumpsStr(t) == <<"QT">> \o EscapeText(t) \o <<"QT">>

DumpsValue(entry, field) ==
    IF field \in IntFields THEN DumpsInt(entry[field]) ELSE DumpsStr(entry[field])

RECURSIVE Spaces(_)
Spaces(n) == IF n = 0 THEN <<>> ELSE <<"SP">> \o Spaces(n - 1)

\* the members of one object from field k on; itemsep is written between members
RECURSIVE DumpsMembers(_, _, _)
DumpsMembers(entry, k, itemsep) ==
    LET member == DumpsStr(<<FieldOrder[k]>>) \o <<":", "SP">>
                      \o DumpsValue(entry, FieldOrder[k])
    IN  IF k = Len(FieldOrder) THEN member
        ELSE member \o itemsep \o DumpsMembers(entry, k + 1, itemsep)

\* json.dumps(entry, ensure_ascii=False): one line, separators ", " and ": "
DumpsCompact(entry) == <<"{">> \o DumpsMembers(entry, 1, <<",", "SP">>) \o <<"}">>

\* one object of json.dump(data, indent=2), at nesting level 1
DumpsIndented(entry) ==
    <<"{", "NL">> \o Spaces(4)
        \o DumpsMembers(entry, 1, <<",", "NL">> \o Spaces(4))
        \o <<"NL">> \o Spaces(2) \o <<"}">>

RECURSIVE DumpsItems(_)
DumpsItems(data) ==
    IF Len(data) = 1 THEN DumpsIndented(data[1])
    ELSE DumpsIndented(data[1]) \o <<",", "NL">> \o Spaces(2) \o DumpsItems(Tail(data))

\* save_json: the text written by json.dump(data, f, indent=2, ensure_ascii=False)
SaveJsonText(data) ==
    IF data = <<>> THEN <<"[", "]">>
    ELSE <<"[", "NL">> \o Spaces(2) \o DumpsItems(data) \o <<"NL", "]">>

\* save_jsonl: one json.dumps(entry) + "\n" per entry
RECURSIVE SaveJsonlText(_)
SaveJsonlText(data) ==
    IF data = <<>> THEN <<>>
    ELSE DumpsCompact(Head(data)) \o <<"NL">> \o SaveJsonlText(Tail(data))

-----------------------------------------------------------------------------
(* view_dataset.py: load_dataset, with json.load / json.loads *)

\* a failed parse: json raises JSONDecodeError
ParseError == [ok |-> FALSE, val |-> <<>>, next |-> 0]

Parsed(v, p) == [ok |-> TRUE, val |-> v, next |-> p]

IsJsonSpace(c) == c \in {"SP", "NL"}

RECURSIVE SkipSpace(_, _)
SkipSpace(s, p) == IF p <= Len(s) /\ IsJsonSpace(s[p]) THEN SkipSpace(s, p + 1) ELSE p

At(s, p, c) == p <= Len(s) /\ s[p] = c

\* the character an escape \c stands for, "" when json knows no such escape
Unescape(c) ==
    CASE c = "QT" -> "QT"
      [] c = "BS" -> "BS"
      [] c = "n"  -> "NL"
      [] OTHER    -> ""

\* the body of a string, after its opening quote; a raw newline is a control
\* character, which the strict decoder rejects
RECURSIVE ParseStringBody(_, _, _)
ParseStringBody(s, p, acc) ==
    IF p > Len(s) THEN ParseError
    ELSE IF s[p] = "QT" THEN Parsed(acc, p + 1)
    ELSE IF s[p] = "NL" THEN ParseError
    ELSE IF s[p] = "BS"
         THEN IF p + 1 > Len(s) \/ Unescape(s[p + 1]) = "" THEN ParseError
              ELSE ParseStringBody(s, p + 2, Append(acc, Unescape(s[p + 1])))
    ELSE ParseStringBody(s, p + 1, Append(acc, s[p]))

ParseString(s, p) == IF At(s, p, "QT") THEN ParseStringBody(s, p + 1, <<>>) ELSE ParseError

IsDigit(c) == \E d \in DOMAIN DigitAtoms : DigitAtoms[d] = c

DigitValue(c) == (CHOOSE d \in DOMAIN DigitAtoms : DigitAtoms[d] = c) - 1

RECURSIVE ParseDigits(_, _, _)
ParseDigits(s, p, acc) ==
    IF p <= Len(s) /\ IsDigit(s[p]) THEN ParseDigits(s, p + 1, 10 * acc + DigitValue(s[p]))
    ELSE Parsed(acc, p)

\* -?(0|[1-9][0-9]*)
ParseInt(s, p) ==
    LET neg == At(s, p, "-")
        q   == IF neg THEN p + 1 ELSE p
    IN  IF ~(q <= Len(s) /\ IsDigit(s[q])) THEN ParseError
        ELSE LET r == IF s[q] = "0" THEN Parsed(0, q + 1) ELSE ParseDigits(s, q, 0)
             IN  Parsed(IF neg THEN 0 - r.val ELSE r.val, r.next)

\* a member value: a string or an integer (a record holds nothing else)
ParseScalar(s, p) ==
    IF At(s, p, "QT") THEN ParseString(s, p)
    ELSE IF p <= Len(s) /\ (s[p] = "-" \/ IsDigit(s[p])) THEN ParseInt(s, p)
    ELSE ParseError

\* dict[key] = value
DictPut(d, key, value) == [k \in (DOMAIN d) \cup {key} |-> IF k = key THEN value ELSE d[k]]

\* the members of an object, p at the first key
RECURSIVE ParseMembers(_, _, _)
ParseMembers(s, p, d) ==
    LET key == ParseString(s, p)
    IN  IF ~key.ok THEN ParseError
        ELSE LET colon == SkipSpace(s, key.next)
             IN  IF ~At(s, colon, ":") THEN ParseError
                 ELSE LET value == ParseScalar(s, SkipSpace(s, colon + 1))
                      IN  IF ~value.ok THEN ParseError
                          ELSE LET d2  == DictPut(d, key.val, value.val)
                                   sep == SkipSpace(s, value.next)
                               IN  IF At(s, sep, "}") THEN Parsed(d2, sep + 1)
                                   ELSE IF At(s, sep, ",")
                                        THEN ParseMembers(s, SkipSpace(s, sep + 1), d2)
                                   ELSE ParseError

ParseObject(s, p) ==
    IF ~At(s, p, "{") THEN ParseError
    ELSE LET q == SkipSpace(s, p + 1)
         IN  IF At(s, q, "}") THEN Parsed(<<>>, q + 1) ELSE ParseMembers(s, q, <<>>)

\* the items of an array, p at the first item
RECURSIVE ParseItems(_, _, _)
ParseItems(s, p, acc) ==
    LET item == ParseObject(s, p)
    IN  IF ~item.ok THEN ParseError
        ELSE LET sep == SkipSpace(s, item.next)
             IN  IF At(s, sep, "]") THEN Parsed(Append(acc, item.val), sep + 1)
                 ELSE IF At(s, sep, ",")
                      THEN ParseItems(s, SkipSpace(s, sep + 1), Append(acc, item.val))
                 ELSE ParseError

ParseArray(s, p) ==
    IF ~At(s, p, "[") THEN ParseError
    ELSE LET q == SkipSpace(s, p + 1)
         IN  IF At(s, q, "]") THEN Parsed(<<>>, q + 1) ELSE ParseItems(s, q, <<>>)

\* a whole document holding one value and blanks around it
WholeDocument(s, r) == IF r.ok /\ SkipSpace(s, r.next) = Len(s) + 1 THEN r ELSE ParseError

\* json.load(f) of a dataset file: an array of objects
JsonLoad(s) == WholeDocument(s, ParseArray(s, SkipSpace(s, 1)))

\* json.loads(line): one object
JsonLoadsLine(s) == WholeDocument(s, ParseObject(s, SkipSpace(s, 1)))

\* "for line in f": the file cut after each newline; a last line without newline counts
RECURSIVE FileLines(_)
FileLines(text) ==
    IF text = <<>> THEN <<>>
    ELSE IF \A k \in DOMAIN text : text[k] # "NL" THEN <<text>>
    ELSE LET p == CHOOSE k \in DOMAIN text :
                      text[k] = "NL" /\ \A j \in 1..(k - 1) : text[j] # "NL"
         IN  <<SubSeq(text, 1, p)>> \o FileLines(SubSeq(text, p + 1, Len(text)))

RECURSIVE LoadLines(_, _)
LoadLines(ls, acc) ==
    IF ls = <<>> THEN Parsed(acc, 0)
    ELSE LET r == JsonLoadsLine(Head(ls))
         IN  IF r.ok THEN LoadLines(Tail(ls), Append(acc, r.val)) ELSE ParseError

\* path.endswith(".jsonl"), on a path of atoms where ".jsonl" is ".json" then "l"
EndsWithJsonl(path) ==
    Len(path) >= 2 /\ path[Len(path) - 1] = ".json" /\ path[Len(path)] = "l"

\* load_dataset(path) on a file holding text: ok is FALSE when the decoder raises
LoadDataset(path, text) ==
    IF EndsWithJsonl(path) THEN LoadLines(FileLines(text), <<>>) ELSE JsonLoad(text)

\* a record as the dict the decoder returns for it
EntryAsDict(entry) == [k \in {<<f>> : f \in DOMAIN entry} |-> entry[k[1]]]

-----------------------------------------------------------------------------
(* create_dataset.py: find_program_pairs and main *)

\* File names are sequences of atoms; "_noinline" and ".c" are atoms, so that the
\* literal "_noinline.c" is the two atoms "_noinline", ".c" in a row.  The input
\* directory itself is left out of the paths (it does not hold that literal).
Candidates ==
    {<<"a", ".c">>, <<"a", "_noinline", ".c">>,
     <<"b", ".c">>, <<"b", "_noinline", ".c">>,
     <<"c", ".c">>, <<"c", "_noinline", ".c">>}

\* what each generated file holds in a build
FileContent(name) ==
    CASE name = <<"a", ".c">>              -> <<"x", "NL", "MARK", "x", "NL", "MARK", "NL", "VAR", "NL">>
      [] name = <<"a", "_noinline", ".c">> -> <<"x", "NL">>
      [] name = <<"b", ".c">>              -> <<"x", "QT", "BS", "n">>
      [] name = <<"b", "_noinline", ".c">> -> <<"NL", "x">>
      [] name = <<"c", ".c">>              -> <<"MARK", "NL">>
      [] OTHER                             -> <<>>

\* the pattern "*_noinline.c"
GlobMatches(name) ==
    Len(name) >= 2 /\ name[Len(name) - 1] = "_noinline" /\ name[Len(name)] = ".c"

\* path.replace("_noinline.c", ".c"): every occurrence
RECURSIVE ReplaceNoinline(_)
ReplaceNoinline(path) ==
    IF path = <<>> THEN <<>>
    ELSE IF Len(path) >= 2 /\ path[1] = "_noinline" /\ path[2] = ".c"
         THEN <<".c">> \o ReplaceNoinline(SubSeq(path, 3, Len(path)))
    ELSE <<Head(path)>> \o ReplaceNoinline(Tail(path))

\* the orders in which glob.glob may list a set of files
Orderings(S) ==
    {f \in [1..Cardinality(S) -> S] : \A i, j \in 1..Cardinality(S) : f[i] = f[j] => i = j}

\* the loop of find_program_pairs over the listed files
RECURSIVE FindProgramPairs(_, _)
FindProgramPairs(noinline_files, existing) ==
    IF noinline_files = <<>> THEN <<>>
    ELSE LET noinline_path == Head(noinline_files)
             inline_path   == ReplaceNoinline(noinline_path)
             rest          == FindProgramPairs(Tail(noinline_files), existing)
         IN  IF inline_path \in existing
             THEN <<[inline_path |-> inline_path, noinline_path |-> noinline_path]>> \o rest
             ELSE rest

Formats == {"json", "jsonl", "parquet"}

Msg(kind, n) == [kind |-> kind, n |-> n]

BuildOff ==
    /\ build_pc = "off"
    /\ files = <<>>
    /\ unreadable = {}
    /\ pandas_ok = FALSE
    /\ formats = {}
    /\ pairs = <<>>
    /\ dataset = <<>>
    /\ clock = 0
    /\ written = <<>>
    /\ attempted = {}
    /\ out = <<>>

InitBuild ==
    /\ build_pc = "start"
    /\ \E present \in SUBSET Candidates : files = [name \in present |-> FileContent(name)]
    /\ unreadable \in {u \in SUBSET (DOMAIN files) : Cardinality(u) <= MaxUnreadable}
    /\ pandas_ok \in BOOLEAN
    /\ formats = {}
    /\ pairs = <<>>
    /\ dataset = <<>>
    /\ clock = 0
    /\ written = <<>>
    /\ attempted = {}
    /\ out = <<>>

\* args = parser.parse_args(): --format takes one or more of the three choices
BuildParseArgs ==
    /\ build_pc = "start"
    /\ formats' \in (SUBSET Formats) \ {{}}
    /\ build_pc' = "find"
    /\ UNCHANGED <<files, unreadable, pandas_ok, pairs, dataset, clock, written, attempted, out>>
    /\ UNCHANGED notBuild

\* the pairs find_program_pairs returns for one listing order of the directory
PairsFound(listing) == FindProgramPairs(listing, DOMAIN files)

\* pairs = find_program_pairs(...); if not pairs: print, return
BuildNoPairs ==
    /\ build_pc = "find"
    /\ \E listing \in Orderings({name \in DOMAIN files : GlobMatches(name)}) :
           /\ PairsFound(listing) = <<>>
           /\ pairs' = <<>>
    /\ out' = Append(out, Msg("no_pairs", 0))
    /\ build_pc' = "done"
    /\ UNCHANGED <<files, unreadable, pandas_ok, formats, dataset, clock, written, attempted>>
    /\ UNCHANGED notBuild

\* pairs = find_program_pairs(...); print "Found n program pair(s)"; dataset = []
BuildFoundPairs ==
    /\ build_pc = "find"
    /\ \E listing \in Orderings({name \in DOMAIN files : GlobMatches(name)}) :
           /\ PairsFound(listing) # <<>>
           /\ pairs' = PairsFound(listing)
    /\ out' = Append(out, Msg("found", Len(pairs')))
    /\ dataset' = <<>>
    /\ build_pc' = "loop"
    /\ UNCHANGED <<files, unreadable, pandas_ok, formats, clock, written, attempted>>
    /\ UNCHANGED notBuild

\* open(path, "r") succeeds and f.read() returns the text
Readable(path) == path \in DOMAIN files /\ path \notin unreadable

\* one iteration of the build loop: both files are read, the entry is appended and printed
BuildEntry ==
    /\ build_pc = "loop"
    /\ Len(dataset) < Len(pairs)
    /\ LET idx  == Len(dataset)
           pair == pairs[idx + 1]
       IN  /\ Readable(pair.inline_path) /\ Readable(pair.noinline_path)
           /\ dataset' = Append(dataset,
                  CreateDatasetEntry(files[pair.inline_path], files[pair.noinline_path],
                                     pair.inline_path, idx, clock))
           /\ out' = Append(out, Msg("entry", idx + 1))
    /\ clock' = clock + 1
    /\ UNCHANGED <<build_pc, files, unreadable, pandas_ok, formats, pairs, written, attempted>>
    /\ UNCHANGED notBuild

\* one iteration of the build loop: read_file raises, nothing catches it, main ends
BuildEntryRaises ==
    /\ build_pc = "loop"
    /\ Len(dataset) < Len(pairs)
    /\ LET pair == pairs[Len(dataset) + 1]
       IN  ~(Readable(pair.inline_path) /\ Readable(pair.noinline_path))
    /\ build_pc' = "crashed"
    /\ UNCHANGED <<files, unreadable, pandas_ok, formats, pairs, dataset, clock,
                   written, attempted, out>>
    /\ UNCHANGED notBuild

\* the loop is over; os.makedirs(output_dir, exist_ok=True)
BuildMakeDirs ==
    /\ build_pc = "loop"
    /\ Len(dataset) = Len(pairs)
    /\ build_pc' = "save_json"
    /\ UNCHANGED <<files, unreadable, pandas_ok, formats, pairs, dataset, clock,
                   written, attempted, out>>
    /\ UNCHANGED notBuild

\* the text a save function writes for a format
SavedText(format, data) ==
    CASE format = "json"  -> SaveJsonText(data)
      [] format = "jsonl" -> SaveJsonlText(data)
      [] OTHER            -> <<"PAR1">>

FilePut(fs, name, text) == [k \in (DOMAIN fs) \cup {name} |-> IF k = name THEN text ELSE fs[k]]

\* if format in args.format: save_...(dataset, path), the write succeeding
SaveFormat(format, then) ==
    /\ format \in formats
    /\ attempted' = attempted \cup {format}
    /\ written' = FilePut(written, format, SavedText(format, dataset))
    /\ out' = Append(out, Msg("saved", Len(dataset)))
    /\ build_pc' = then
    /\ UNCHANGED <<files, unreadable, pandas_ok, formats, pairs, dataset, clock>>
    /\ UNCHANGED notBuild

\* if format in args.format: save_...(dataset, path), open or write raising OSError:
\* nothing catches it, main ends
SaveFormatRaises(format) ==
    /\ format \in formats
    /\ attempted' = attempted \cup {format}
    /\ build_pc' = "crashed"
    /\ UNCHANGED <<files, unreadable, pandas_ok, formats, pairs, dataset, clock, written, out>>
    /\ UNCHANGED notBuild

\* the format was not requested
SkipFormat(format, then) ==
    /\ format \notin formats
    /\ build_pc' = then
    /\ UNCHANGED <<files, unreadable, pandas_ok, formats, pairs, dataset, clock,
                   written, attempted, out>>
    /\ UNCHANGED notBuild

BuildSaveJson == build_pc = "save_json" /\ SaveFormat("json", "save_jsonl")
BuildSaveJsonRaises == build_pc = "save_json" /\ SaveFormatRaises("json")
BuildSkipJson == build_pc = "save_json" /\ SkipFormat("json", "save_jsonl")

BuildSaveJsonl == build_pc = "save_jsonl" /\ SaveFormat("jsonl", "save_parquet")
BuildSaveJsonlRaises == build_pc = "save_jsonl" /\ SaveFormatRaises("jsonl")
BuildSkipJsonl == build_pc = "save_jsonl" /\ SkipFormat("jsonl", "save_parquet")

\* save_parquet: the import succeeds; to_parquet writes, or raises something else
\* than ImportError, which nothing catches
BuildSaveParquet ==
    build_pc = "save_parquet" /\ pandas_ok /\ SaveFormat("parquet", "finish")
BuildSaveParquetRaises ==
    build_pc = "save_parquet" /\ pandas_ok /\ SaveFormatRaises("parquet")
BuildSkipParquet == build_pc = "save_parquet" /\ SkipFormat("parquet", "finish")

\* save_parquet: the import raises ImportError, which is caught: a warning is printed
BuildParquetUnavailable ==
    /\ build_pc = "save_parquet"
    /\ "parquet" \in formats
    /\ ~pandas_ok
    /\ attempted' = attempted \cup {"parquet"}
    /\ out' = Append(out, Msg("parquet_skipped", 0))
    /\ build_pc' = "finish"
    /\ UNCHANGED <<files, unreadable, pandas_ok, formats, pairs, dataset, clock, written>>
    /\ UNCHANGED notBuild

\* print "Dataset created with n entries" and the viewing hints
BuildFinish ==
    /\ build_pc = "finish"
    /\ out' = Append(out, Msg("created", Len(dataset)))
    /\ build_pc' = "done"
    /\ UNCHANGED <<files, unreadable, pandas_ok, formats, pairs, dataset, clock,
                   written, attempted>>
    /\ UNCHANGED notBuild

NextBuild ==
    \/ BuildParseArgs
    \/ BuildNoPairs
    \/ BuildFoundPairs
    \/ BuildEntry
    \/ BuildEntryRaises
    \/ BuildMakeDirs
    \/ BuildSaveJson
    \/ BuildSaveJsonRaises
    \/ BuildSkipJson
    \/ BuildSaveJsonl
    \/ BuildSaveJsonlRaises
    \/ BuildSkipJsonl
    \/ BuildSaveParquet
    \/ BuildSaveParquetRaises
    \/ BuildSkipParquet
    \/ BuildParquetUnavailable
    \/ BuildFinish

-----------------------------------------------------------------------------
(* create_dataset_entry on the texts of one pair *)

EntryAlphabet == {"x", "NL", "MARK", "VAR"}

EntryOff ==
    /\ entry_pc = "off"
    /\ entry_after = <<>>
    /\ entry_before = <<>>
    /\ entry_result = <<>>

InitEntry ==
    /\ entry_pc = "call"
    /\ entry_after \in TextsUpTo(EntryAlphabet, MaxFileLen)
    /\ entry_before \in TextsUpTo(EntryAlphabet, MaxFileLen)
    /\ entry_result = <<>>

\* entry = create_dataset_entry(inline_path, noinline_path, idx), both files readable
EntryCreate ==
    /\ entry_pc = "call"
    /\ \E idx \in 0..1 :
           entry_result' = CreateDatasetEntry(entry_after, entry_before, <<"a", ".c">>, idx, idx)
    /\ entry_pc' = "done"
    /\ UNCHANGED <<entry_after, entry_before>>
    /\ UNCHANGED notEntry

NextEntry == EntryCreate

-----------------------------------------------------------------------------
(* save_json and save_jsonl of a dataset, then load_dataset of both files *)

RtAlphabet == {"n", "NL", "QT", "BS"}

\* a noinline text with an escape sequence, a newline and a quote in it
RtBefore == <<"BS", "n", "NL", "QT">>

\* the datasets a build can hand to the writers: ids count from 0
RtDatasets ==
    UNION {[1..n -> TextsUpTo(RtAlphabet, MaxRtLen)] : n \in 0..MaxRtRecords}

RtDataset(afters) ==
    [k \in 1..Len(afters) |->
        CreateDatasetEntry(afters[k], RtBefore, <<"a", ".c">>, k - 1, k - 1)]

JsonPath == <<"x", ".json">>
JsonlPath == <<"x", ".json", "l">>

RtOff ==
    /\ rt_pc = "off"
    /\ rt_data = <<>>
    /\ rt_files = <<>>
    /\ rt_json = ParseError
    /\ rt_jsonl = ParseError

InitRt ==
    /\ rt_pc = "save_json"
    /\ \E afters \in RtDatasets : rt_data = RtDataset(afters)
    /\ rt_files = <<>>
    /\ rt_json = ParseError
    /\ rt_jsonl = ParseError

\* save_json(dataset, "x.json")
RtSaveJson ==
    /\ rt_pc = "save_json"
    /\ rt_files' = FilePut(rt_files, JsonPath, SaveJsonText(rt_data))
    /\ rt_pc' = "save_jsonl"
    /\ UNCHANGED <<rt_data, rt_json, rt_jsonl>>
    /\ UNCHANGED notRt

\* save_jsonl(dataset, "x.jsonl")
RtSaveJsonl ==
    /\ rt_pc = "save_jsonl"
    /\ rt_files' = FilePut(rt_files, JsonlPath, SaveJsonlText(rt_data))
    /\ rt_pc' = "load_json"
    /\ UNCHANGED <<rt_data, rt_json, rt_jsonl>>
    /\ UNCHANGED notRt

\* load_dataset("x.json")
RtLoadJson ==
    /\ rt_pc = "load_json"
    /\ rt_json' = LoadDataset(JsonPath, rt_files[JsonPath])
    /\ rt_pc' = "load_jsonl"
    /\ UNCHANGED <<rt_data, rt_files, rt_jsonl>>
    /\ UNCHANGED notRt

\* load_dataset("x.jsonl")
RtLoadJsonl ==
    /\ rt_pc = "load_jsonl"
    /\ rt_jsonl' = LoadDataset(JsonlPath, rt_files[JsonlPath])
    /\ rt_pc' = "done"
    /\ UNCHANGED <<rt_data, rt_files, rt_json>>
    /\ UNCHANGED notRt

NextRt == RtSaveJson \/ RtSaveJsonl \/ RtLoadJson \/ RtLoadJsonl

-----------------------------------------------------------------------------
(* view_dataset.py: find_inlined_sections *)

ScanAlphabet == {"NL", "SP", "x", "MARK", "malloc", "//", "/*"}

\* a mutant of FirstEnd: the inner loop starts at the marker line itself
FirstEndAtMarker(i) == i

\* end = i + 1
FirstEnd(i) == i + 1

\* a mutant of InnerLoopEnd: the malloc test is missing
RECURSIVE InnerLoopEndNoMalloc(_, _)
InnerLoopEndNoMalloc(lines, end) ==
    IF end < Len(lines) /\ ~StartsWithLineComment(Strip(lines[end + 1]))
    THEN IF Strip(lines[end + 1]) # <<>> /\ ~StartsWithCommentOpen(Strip(lines[end + 1]))
         THEN InnerLoopEndNoMalloc(lines, end + 1)
         ELSE end
    ELSE end

\* the inner while loop: the value of end when it exits (0-based line index)
RECURSIVE InnerLoopEnd(_, _)
InnerLoopEnd(lines, end) ==
    IF /\ end < Len(lines)
       /\ ~StartsWithLineComment(Strip(lines[end + 1]))
       /\ ~ContainsMalloc(lines[end + 1])
    THEN IF Strip(lines[end + 1]) # <<>> /\ ~StartsWithCommentOpen(Strip(lines[end + 1]))
         THEN InnerLoopEnd(lines, end + 1)
         ELSE end
    ELSE end

\* {"line": start + 1, "code": "\n".join(lines[start:end])}
Section(lines, start, end) ==
    [line |-> start + 1, code |-> JoinLines(SubSeq(lines, start + 1, end))]

\* the outer while loop of find_inlined_sections, run to its end
RECURSIVE OuterLoop(_, _, _)
OuterLoop(lines, i, sections) ==
    IF i < Len(lines)
    THEN IF ContainsMarker(lines[i + 1])
         THEN LET end == InnerLoopEnd(lines, FirstEnd(i))
              IN  OuterLoop(lines, end, Append(sections, Section(lines, i, end)))
         ELSE OuterLoop(lines, i + 1, sections)
    ELSE sections

\* find_inlined_sections(code), as show_inlined_diff calls it
FindInlinedSections(code) == OuterLoop(SplitLines(code), 0, <<>>)

ScanOff ==
    /\ scan_pc = "off"
    /\ scan_code = <<>>
    /\ scan_lines = <<>>
    /\ scan_i = 0
    /\ scan_sections = <<>>
    /\ scan_steps = 0
    /\ scan_calls = 0
    /\ scan_prev = <<>>

InitScan ==
    /\ scan_pc = "call"
    /\ scan_code \in TextsUpTo(ScanAlphabet, MaxScanLen)
    /\ scan_lines = <<>>
    /\ scan_i = 0
    /\ scan_sections = <<>>
    /\ scan_steps = 0
    /\ scan_calls = 0
    /\ scan_prev = <<>>

\* the browser before its first 'i' command on an entry whose text is scan_code
InitRescan ==
    /\ scan_pc = "call"
    /\ scan_code \in TextsUpTo(ScanAlphabet, MaxRescanLen)
    /\ scan_lines = <<>>
    /\ scan_i = 0
    /\ scan_sections = <<>>
    /\ scan_steps = 0
    /\ scan_calls = 0
    /\ scan_prev = <<>>

\* sections = []; lines = code.split("\n"); i = 0
ScanCall ==
    /\ scan_pc = "call"
    /\ scan_lines' = SplitLines(scan_code)
    /\ scan_i' = 0
    /\ scan_sections' = <<>>
    /\ scan_pc' = "loop"
    /\ scan_steps' = 0
    /\ scan_calls' = scan_calls + 1
    /\ UNCHANGED <<scan_code, scan_prev>>
    /\ UNCHANGED notScan

\* one iteration of the outer loop on a line that holds the marker
ScanMarkerLine ==
    /\ scan_pc = "loop"
    /\ scan_i < Len(scan_lines)
    /\ ContainsMarker(scan_lines[scan_i + 1])
    /\ LET end == InnerLoopEnd(scan_lines, FirstEnd(scan_i))
       IN  /\ scan_sections' = Append(scan_sections, Section(scan_lines, scan_i, end))
           /\ scan_i' = end
    /\ scan_steps' = scan_steps + 1
    /\ UNCHANGED <<scan_pc, scan_code, scan_lines, scan_calls, scan_prev>>
    /\ UNCHANGED notScan

\* one iteration of the outer loop on any other line
ScanOtherLine ==
    /\ scan_pc = "loop"
    /\ scan_i < Len(scan_lines)
    /\ ~ContainsMarker(scan_lines[scan_i + 1])
    /\ scan_i' = scan_i + 1
    /\ scan_steps' = scan_steps + 1
    /\ UNCHANGED <<scan_pc, scan_code, scan_lines, scan_sections, scan_calls, scan_prev>>
    /\ UNCHANGED notScan

\* return sections
ScanReturn ==
    /\ scan_pc = "loop"
    /\ scan_i >= Len(scan_lines)
    /\ scan_pc' = "done"
    /\ UNCHANGED <<scan_code, scan_lines, scan_i, scan_sections, scan_steps, scan_calls,
                   scan_prev>>
    /\ UNCHANGED notScan

NextScan == ScanCall \/ ScanMarkerLine \/ ScanOtherLine \/ ScanReturn

\* the next 'i' command on the same entry: show_inlined_diff calls
\* find_inlined_sections on the same text again
ScanAgain ==
    /\ scan_pc = "done"
    /\ scan_calls < MaxCalls
    /\ scan_prev' = scan_sections
    /\ scan_pc' = "call"
    /\ UNCHANGED <<scan_code, scan_lines, scan_i, scan_sections, scan_steps, scan_calls>>
    /\ UNCHANGED notScan

\* the steps of one call of find_inlined_sections
ScanStep == ScanCall \/ ScanMarkerLine \/ ScanOtherLine \/ ScanReturn

NextRescan == ScanCall \/ ScanMarkerLine \/ ScanOtherLine \/ ScanReturn \/ ScanAgain

-----------------------------------------------------------------------------
(* view_dataset.py: main and interactive_mode *)

JsonllPath == <<"x", ".json", "l", "l">>

\* the dataset a build of n pairs has written
ViewDataset(n) ==
    [k \in 1..n |->
        CreateDatasetEntry(FileContent(IF k = 2 THEN <<"b", ".c">> ELSE <<"a", ".c">>),
                           FileContent(<<"a", "_noinline", ".c">>),
                           <<"a", ".c">>, k - 1, k - 1)]

\* what a dataset file holds: x.jsonl the line form, the others the document form
ViewFileText(path, n) ==
    IF path = JsonlPath THEN SaveJsonlText(ViewDataset(n)) ELSE SaveJsonText(ViewDataset(n))

\* a mutant of ReplaceJson: nothing is replaced
ReplaceNothing(path) == path

\* path.replace(".json", ".jsonl"): every occurrence; ".jsonl" holds ".json" too
RECURSIVE ReplaceJson(_)
ReplaceJson(path) ==
    IF path = <<>> THEN <<>>
    ELSE IF Head(path) = ".json" THEN <<".json", "l">> \o ReplaceJson(Tail(path))
    ELSE <<Head(path)>> \o ReplaceJson(Tail(path))

\* entry.get(key, default)
DictGet(d, key, default) == IF key \in DOMAIN d THEN d[key] ELSE default

\* the code show_inlined_diff scans
AfterCode(entry) == DictGet(entry, <<"after">>, DictGet(entry, <<"inline_code">>, <<>>))

\* what show_inlined_diff prints last
ShowInlinedDiff(entry) ==
    IF FindInlinedSections(AfterCode(entry)) = <<>> THEN "no_sections" ELSE "sections"

CmdAlphabet == {"n", "p", "f", "i", "q", "N", "SP", "0", "2", "5", "sup2"}

\* str.lower() of one character
LowerChar(c) == IF c = "N" THEN "n" ELSE c

\* input("> ").strip().lower()
Normalise(raw) == LET t == Strip(raw) IN [k \in 1..Len(t) |-> LowerChar(t[k])]

\* the characters str.isdigit accepts: the decimal digits and, among others, superscripts
IsDigitChar(c) == IsDigit(c) \/ c = "sup2"

\* cmd.isdigit()
IsDigitString(cmd) == cmd # <<>> /\ \A k \in DOMAIN cmd : IsDigitChar(cmd[k])

\* int(cmd) returns for decimal digits only; it raises ValueError on a superscript
IntParses(cmd) == \A k \in DOMAIN cmd : IsDigit(cmd[k])

IntOf(cmd) == ParseDigits(cmd, 1, 0).val

\* (current + 1) % len(dataset)
NextIndex(cur, n) == (cur + 1) % n

\* a mutant of PrevIndex: no wrap-around
PrevIndexNoWrap(cur, n) == cur - 1

\* (current - 1) % len(dataset)
PrevIndex(cur, n) == (cur - 1) % n

\* a mutant of IndexInRange: the upper limit is off by one
IndexInRangeInclusive(idx, n) == 0 <= idx /\ idx <= n

\* 0 <= idx < len(dataset)
IndexInRange(idx, n) == 0 <= idx /\ idx < n

ViewOff ==
    /\ view_pc = "off"
    /\ view_files = <<>>
    /\ view_request = <<>>
    /\ view_mode = "all"
    /\ view_entry = 0
    /\ view_path = <<>>
    /\ view_data = <<>>
    /\ current = 0
    /\ view_cmd = <<>>
    /\ view_last = "nothing"

InitView ==
    /\ view_pc = "start"
    /\ \E present \in SUBSET {JsonPath, JsonlPath, JsonllPath}, n \in 1..MaxViewRecords :
           view_files = [path \in present |-> ViewFileText(path, n)]
    /\ view_request \in {JsonPath, JsonlPath}
    /\ view_mode \in {"interactive", "entry", "all"}
    /\ view_entry \in IF view_mode = "entry" THEN {-1, 0, MaxViewRecords} ELSE {0}
    /\ view_path = view_request
    /\ view_data = <<>>
    /\ current = 0
    /\ view_cmd = <<>>
    /\ view_last = "nothing"

viewArgs == <<view_files, view_request, view_mode, view_entry>>

\* os.path.exists(args.dataset)
ViewFound ==
    /\ view_pc = "start"
    /\ view_request \in DOMAIN view_files
    /\ view_pc' = "load"
    /\ UNCHANGED <<viewArgs, view_path, view_data, current, view_cmd, view_last>>
    /\ UNCHANGED notView

\* the requested path is absent, the path with ".json" replaced exists
ViewFallback ==
    /\ view_pc = "start"
    /\ view_request \notin DOMAIN view_files
    /\ ReplaceJson(view_request) \in DOMAIN view_files
    /\ view_path' = ReplaceJson(view_request)
    /\ view_pc' = "load"
    /\ UNCHANGED <<viewArgs, view_data, current, view_cmd, view_last>>
    /\ UNCHANGED notView

\* neither exists: print "Dataset not found", return
ViewNotFound ==
    /\ view_pc = "start"
    /\ view_request \notin DOMAIN view_files
    /\ ReplaceJson(view_request) \notin DOMAIN view_files
    /\ view_last' = "not_found"
    /\ view_pc' = "done"
    /\ UNCHANGED <<viewArgs, view_path, view_data, current, view_cmd>>
    /\ UNCHANGED notView

\* dataset = load_dataset(args.dataset); a decoder error ends main
ViewLoad ==
    /\ view_pc = "load"
    /\ LET r == LoadDataset(view_path, view_files[view_path])
       IN  /\ view_data' = r.val
           /\ view_last' = IF r.ok THEN "loaded" ELSE view_last
           /\ view_pc' = IF r.ok THEN "dispatch" ELSE "crashed"
    /\ UNCHANGED <<viewArgs, view_path, current, view_cmd>>
    /\ UNCHANGED notView

\* if args.interactive: interactive_mode(dataset): current = 0
ViewInteractive ==
    /\ view_pc = "dispatch"
    /\ view_mode = "interactive"
    /\ current' = 0
    /\ view_pc' = "browse"
    /\ UNCHANGED <<viewArgs, view_path, view_data, view_cmd, view_last>>
    /\ UNCHANGED notView

\* elif args.entry is not None: the entry, or "Invalid entry index"
ViewEntry ==
    /\ view_pc = "dispatch"
    /\ view_mode = "entry"
    /\ view_last' = IF IndexInRange(view_entry, Len(view_data)) THEN "entry"
                    ELSE "invalid_entry"
    /\ view_pc' = "done"
    /\ UNCHANGED <<viewArgs, view_path, view_data, current, view_cmd>>
    /\ UNCHANGED notView

\* else: every entry is displayed
ViewAll ==
    /\ view_pc = "dispatch"
    /\ view_mode = "all"
    /\ view_last' = "entry"
    /\ view_pc' = "done"
    /\ UNCHANGED <<viewArgs, view_path, view_data, current, view_cmd>>
    /\ UNCHANGED notView

Inputs == TextsUpTo(CmdAlphabet, MaxCmdLen)

\* The browsing loop is modelled in two steps per iteration: the entry is displayed
\* and a line is read into cmd ("browse" -> "command"), then the if chain acts on cmd
\* ("command" -> "browse").  cmd is assigned again before it is read again, so the
\* model forgets it once the chain has acted.

\* display_entry(dataset[current]); cmd = input("> ").strip().lower()
BrowseRead ==
    /\ view_pc = "browse"
    /\ \E raw \in Inputs : view_cmd' = Normalise(raw)
    /\ view_last' = "prompt"
    /\ view_pc' = "command"
    /\ UNCHANGED <<viewArgs, view_path, view_data, current>>
    /\ UNCHANGED notView

\* input() raises EOFError at the end of the input
BrowseEndOfInput ==
    /\ view_pc = "browse"
    /\ view_last' = "prompt"
    /\ view_pc' = "crashed"
    /\ UNCHANGED <<viewArgs, view_path, view_data, current, view_cmd>>
    /\ UNCHANGED notView

\* the if chain takes a branch; what every branch leaves alone
Command ==
    /\ view_pc = "command"
    /\ view_cmd' = <<>>
    /\ UNCHANGED <<viewArgs, view_path, view_data>>
    /\ UNCHANGED notView

BrowseNext ==
    /\ Command
    /\ view_cmd = <<"n">>
    /\ current' = NextIndex(current, Len(view_data))
    /\ view_pc' = "browse"
    /\ UNCHANGED view_last

BrowsePrev ==
    /\ Command
    /\ view_cmd = <<"p">>
    /\ current' = PrevIndex(current, Len(view_data))
    /\ view_pc' = "browse"
    /\ UNCHANGED view_last

\* display_entry(dataset[current], show_full=True); input("Press Enter ...")
BrowseFull ==
    /\ Command
    /\ view_cmd = <<"f">>
    /\ view_last' = "full"
    /\ view_pc' = "browse"
    /\ UNCHANGED current

\* show_inlined_diff(dataset[current]); input("Press Enter ...")
BrowseInlined ==
    /\ Command
    /\ view_cmd = <<"i">>
    /\ view_last' = ShowInlinedDiff(view_data[current + 1])
    /\ view_pc' = "browse"
    /\ UNCHANGED current

\* break: interactive_mode returns and main ends
BrowseQuit ==
    /\ Command
    /\ view_cmd = <<"q">>
    /\ view_pc' = "done"
    /\ UNCHANGED <<current, view_last>>

\* elif cmd.isdigit(): idx = int(cmd) - 1; the jump, or "Invalid index"
BrowseJump ==
    /\ Command
    /\ view_cmd \notin {<<"n">>, <<"p">>, <<"f">>, <<"i">>, <<"q">>}
    /\ IsDigitString(view_cmd)
    /\ IntParses(view_cmd)
    /\ LET idx == IntOf(view_cmd) - 1
       IN  IF IndexInRange(idx, Len(view_data))
           THEN current' = idx /\ view_last' = view_last
           ELSE current' = current /\ view_last' = "invalid_index"
    /\ view_pc' = "browse"

\* cmd.isdigit() holds and int(cmd) raises ValueError: the loop ends with the exception
BrowseJumpRaises ==
    /\ Command
    /\ view_cmd \notin {<<"n">>, <<"p">>, <<"f">>, <<"i">>, <<"q">>}
    /\ IsDigitString(view_cmd)
    /\ ~IntParses(view_cmd)
    /\ view_pc' = "crashed"
    /\ UNCHANGED <<current, view_last>>

\* no branch of the if chain takes the command
BrowseOther ==
    /\ Command
    /\ view_cmd \notin {<<"n">>, <<"p">>, <<"f">>, <<"i">>, <<"q">>}
    /\ ~IsDigitString(view_cmd)
    /\ view_pc' = "browse"
    /\ UNCHANGED <<current, view_last>>

NextView ==
    \/ ViewFound
    \/ ViewFallback
    \/ ViewNotFound
    \/ ViewLoad
    \/ ViewInteractive
    \/ ViewEntry
    \/ ViewAll
    \/ BrowseRead
    \/ BrowseNext
    \/ BrowsePrev
    \/ BrowseFull
    \/ BrowseInlined
    \/ BrowseQuit
    \/ BrowseJump
    \/ BrowseJumpRaises
    \/ BrowseOther
    \/ BrowseEndOfInput

-----------------------------------------------------------------------------
(* Specifications: one per program, the other programs not running *)

StartScan == InitScan /\ BuildOff /\ EntryOff /\ RtOff /\ ViewOff

SpecScan == StartScan /\ [][NextScan]_vars

StartRescan == InitRescan /\ BuildOff /\ EntryOff /\ RtOff /\ ViewOff

\* a call of find_inlined_sections that has begun keeps running: Python runs
\* the function body to its end; whether the user asks again is left open
SpecRescan == StartRescan /\ [][NextRescan]_vars /\ WF_vars(ScanStep)

StartBuild == InitBuild /\ ScanOff /\ EntryOff /\ RtOff /\ ViewOff

SpecBuild == StartBuild /\ [][NextBuild]_vars

StartEntry == InitEntry /\ ScanOff /\ BuildOff /\ RtOff /\ ViewOff

SpecEntry == StartEntry /\ [][NextEntry]_vars

StartRoundTrip == InitRt /\ ScanOff /\ BuildOff /\ EntryOff /\ ViewOff

SpecRoundTrip == StartRoundTrip /\ [][NextRt]_vars

StartView == InitView /\ ScanOff /\ BuildOff /\ EntryOff /\ RtOff

SpecView == StartView /\ [][NextView]_vars

Init == StartScan \/ StartRescan \/ StartBuild \/ StartEntry \/ StartRoundTrip \/ StartView

Next == NextScan \/ NextRescan \/ NextBuild \/ NextEntry \/ NextRt \/ NextView

Spec == Init /\ [][Next]_vars

-----------------------------------------------------------------------------
(* Claims about find_inlined_sections *)

\* number of lines of a returned region
RegionLines(sec) == Count(sec.code, "NL") + 1

\* 1-based numbers of the lines that hold the marker
MarkerLines == {n \in DOMAIN scan_lines : \E k \in DOMAIN scan_lines[n] : scan_lines[n][k] = "MARK"}

\* line n lies inside region sec, after its first line
InsideRegion(n, sec) == sec.line < n /\ n < sec.line + RegionLines(sec)

\* C6 as stated: the scan returns exactly one region per marker occurrence, each
\* region starting at the line of its marker, in increasing line order, and the
\* empty sequence for a text without marker.  It is stated here for the texts that
\* keep the convention of at most one marker per line only, and fails even there.
C6_OneRegionPerMarkerOccurrence ==
    (scan_pc = "done" /\ \A n \in DOMAIN scan_lines : Count(scan_lines[n], "MARK") <= 1) =>
        /\ Len(scan_sections) = Count(scan_code, "MARK")
        /\ \A k \in DOMAIN scan_sections : scan_sections[k].line \in MarkerLines
        /\ \A k \in 1..(Len(scan_sections) - 1) :
               scan_sections[k].line < scan_sections[k + 1].line
        /\ (Count(scan_code, "MARK") = 0 => scan_sections = <<>>)

\* C6 amended: the scan returns one region per marker-holding line that does not
\* lie inside an earlier region: every region starts at a marker-holding line,
\* regions are in increasing line order and do not overlap, every marker-holding
\* line starts exactly one region or lies inside one (never both), so there are at
\* most as many regions as marker-holding lines; no marker gives the empty sequence.
C6_OneRegionPerUnabsorbedMarkerLine ==
    scan_pc = "done" =>
        /\ \A k \in DOMAIN scan_sections : scan_sections[k].line \in MarkerLines
        /\ \A k \in 1..(Len(scan_sections) - 1) :
               scan_sections[k].line + RegionLines(scan_sections[k])
                   <= scan_sections[k + 1].line
        /\ \A n \in MarkerLines :
               LET starts   == {k \in DOMAIN scan_sections : scan_sections[k].line = n}
                   absorbed == \E k \in DOMAIN scan_sections :
                                   InsideRegion(n, scan_sections[k])
               IN  (Cardinality(starts) = 1 /\ ~absorbed) \/ (starts = {} /\ absorbed)
        /\ Len(scan_sections) <= Cardinality(MarkerLines)
        /\ (Count(scan_code, "MARK") = 0 => scan_sections = <<>>)

\* a finished scan of two marker-holding lines, the second inside the region of the first
C6_Witness ==
    /\ scan_pc = "done"
    /\ scan_code = <<"MARK", "NL", "x", "MARK">>
    /\ Len(scan_sections) = 1
    /\ scan_sections[1].line = 1

\* a line that lets a region go on: not blank, not comment-prefixed, without malloc
\* (blank and comment-prefixed are judged on the line without its surrounding blanks)
Continues(line) ==
    /\ \E k \in DOMAIN line : line[k] # "SP"
    /\ LET first == CHOOSE k \in DOMAIN line :
                        line[k] # "SP" /\ \A j \in 1..(k - 1) : line[j] = "SP"
       IN  line[first] \notin {"//", "/*", "MARK", "VAR"}
    /\ \A k \in DOMAIN line : line[k] # "malloc"

\* C7: every returned region is its marker line followed by the maximal run of
\* immediately following lines that are each non-blank, not comment-prefixed and
\* free of malloc; the first following line that breaks this is not in the region.
C7_RegionBoundary ==
    \A k \in DOMAIN scan_sections :
        LET s == scan_sections[k].line
            e == s + RegionLines(scan_sections[k]) - 1
        IN  /\ s \in MarkerLines
            /\ e <= Len(scan_lines)
            /\ scan_sections[k].code = JoinLines(SubSeq(scan_lines, s, e))
            /\ \A n \in (s + 1)..e : Continues(scan_lines[n])
            /\ e < Len(scan_lines) => ~Continues(scan_lines[e + 1])

\* one marker followed by a line holding malloc: one region, ending before that line
C7_Witness ==
    /\ scan_pc = "done"
    /\ scan_code = <<"MARK", "x", "NL", "x", "malloc">>
    /\ scan_sections = <<[line |-> 1, code |-> <<"MARK", "x">>]>>

\* an iteration of the outer loop of find_inlined_sections
OuterIteration == scan_pc = "loop" /\ scan_pc' = "loop" /\ scan_steps' = scan_steps + 1

\* what holds of a call at every moment: the position stays within the text,
\* the iterations made and the regions found are at most the lines passed,
\* a finished call has the result the text alone determines, and a later
\* call has the result of the call before it
ScanBounded ==
    /\ scan_pc \in {"loop", "done"} =>
           /\ scan_i <= Len(scan_lines)
           /\ scan_steps <= scan_i
           /\ scan_steps <= Len(scan_lines)
           /\ Len(scan_sections) <= scan_steps
           /\ Len(scan_sections) <= Len(scan_lines)
    /\ scan_pc = "done" =>
           /\ scan_i = Len(scan_lines)
           /\ scan_sections = FindInlinedSections(scan_code)
           /\ scan_calls >= 2 => scan_sections = scan_prev

\* C11: the marker scan terminates on every finite text: every iteration of
\* the outer loop strictly advances the scan position (a region consumes at
\* least its marker line), so a call makes at most as many iterations as the
\* text has lines, returns at most one region per line and always returns;
\* a second call on the same text returns the same sequence.
C11_ScanTerminates ==
    /\ [][OuterIteration => scan_i' > scan_i]_vars
    /\ []ScanBounded
    /\ (scan_pc = "call") ~> (scan_pc = "done")

\* the second call on a text has returned: a two-line region, then a blank line
C11_Witness ==
    /\ scan_pc = "done"
    /\ scan_calls = 2
    /\ scan_code = <<"MARK", "NL", "x", "NL">>
    /\ scan_steps = 2
    /\ scan_sections = <<[line |-> 1, code |-> <<"MARK", "NL", "x">>]>>
    /\ scan_prev = scan_sections

-----------------------------------------------------------------------------
(* Claims about the build: find_program_pairs and main of create_dataset.py *)

HasSuffix(name) ==
    Len(name) >= 2 /\ SubSeq(name, Len(name) - 1, Len(name)) = <<"_noinline", ".c">>

\* the name with the suffix "_noinline" removed
Counterpart(name) == SubSeq(name, 1, Len(name) - 2) \o <<".c">>

Matched == {name \in DOMAIN files : HasSuffix(name) /\ Counterpart(name) \in DOMAIN files}

Unmatched == {name \in DOMAIN files : HasSuffix(name) /\ Counterpart(name) \notin DOMAIN files}

Printed(kind, n) == \E k \in DOMAIN out : out[k].kind = kind /\ out[k].n = n

BuildEnded == build_pc \in {"done", "crashed"}

\* C1: with N suffixed files whose counterpart exists and M whose counterpart does
\* not, the build finds exactly N pairs, each matched file once, and reports the M
\* unmatched files in its output.
C1_PairsAndUnmatchedReported ==
    build_pc \notin {"start", "find"} =>
        /\ Len(pairs) = Cardinality(Matched)
        /\ {pairs[k].noinline_path : k \in DOMAIN pairs} = Matched
        /\ Unmatched # {} => Printed("unmatched", Cardinality(Unmatched))

PairReadable(pair) ==
    /\ pair.inline_path \in DOMAIN files /\ pair.inline_path \notin unreadable
    /\ pair.noinline_path \in DOMAIN files /\ pair.noinline_path \notin unreadable

\* C2: a pair whose files cannot be read is reported and skipped; the build goes on
\* to the end of the pairs and to the writers, and the dataset holds a record for
\* every pair that could be read.  It is stated here for the builds that have read
\* at least one pair only (a failure on the very first pair may be taken as fatal),
\* and fails even there.
C2_FailureIsolation ==
    (BuildEnded /\ dataset # <<>>) =>
        /\ \A k \in DOMAIN pairs :
               PairReadable(pairs[k]) =>
                   \E j \in DOMAIN dataset : dataset[j].filename = pairs[k].inline_path
        /\ \A k \in DOMAIN pairs : ~PairReadable(pairs[k]) => Printed("skipped", k)
        /\ attempted # {}

\* C8: once the dataset is built, every requested format is attempted, whatever
\* happens to the writes of the others; a parquet request without pandas is skipped
\* with a warning.
C8_FormatsIndependent ==
    (BuildEnded /\ pairs # <<>> /\ Len(dataset) = Len(pairs)) =>
        /\ formats \subseteq attempted
        /\ ("parquet" \in formats /\ ~pandas_ok) => Printed("parquet_skipped", 0)

-----------------------------------------------------------------------------
(* Claims about create_dataset_entry *)

Newlines(text) == Cardinality({k \in DOMAIN text : text[k] = "NL"})

\* C3: for two non-empty texts the record has line_diff = after_lines - before_lines,
\* each count being the number of newline characters of its text (what follows the
\* last newline is not counted as a line).
C3_LineDiff ==
    (entry_pc = "done" /\ entry_after # <<>> /\ entry_before # <<>>) =>
        /\ entry_result.after_lines = Newlines(entry_after)
        /\ entry_result.before_lines = Newlines(entry_before)
        /\ entry_result.line_diff = Newlines(entry_after) - Newlines(entry_before)
        /\ entry_result.line_diff = entry_result.after_lines - entry_result.before_lines

\* a record of a text with something after its last newline, and a negative difference
C3_Witness ==
    /\ entry_pc = "done"
    /\ entry_after = <<"x", "NL", "x">>
    /\ entry_before = <<"NL", "x", "NL">>
    /\ entry_result.after_lines = 1
    /\ entry_result.line_diff = -1

-----------------------------------------------------------------------------
(* Claims about the two persisted forms *)

Ids(data) == {data[k][<<"id">>] : k \in DOMAIN data}

WithId(data, id) == {data[k] : k \in {j \in DOMAIN data : data[j][<<"id">>] = id}}

\* C4: a dataset written by save_json and by save_jsonl and read back from both
\* files by load_dataset gives the same records, element for element and id for id
\* (both reads return, and what they return are the records written).
C4_RoundTrip ==
    rt_pc = "done" =>
        /\ rt_json.ok /\ rt_jsonl.ok
        /\ Len(rt_json.val) = Len(rt_jsonl.val)
        /\ \A k \in DOMAIN rt_json.val : rt_json.val[k] = rt_jsonl.val[k]
        /\ Ids(rt_json.val) = Ids(rt_jsonl.val)
        /\ \A id \in Ids(rt_json.val) : WithId(rt_json.val, id) = WithId(rt_jsonl.val, id)
        /\ Len(rt_json.val) = Len(rt_data)
        /\ \A k \in DOMAIN rt_data : rt_json.val[k] = EntryAsDict(rt_data[k])

\* two records, one with a newline and one with a quote in its text, read back
C4_Witness ==
    /\ rt_pc = "done"
    /\ Len(rt_data) = 2
    /\ rt_data[1].after = <<"NL">>
    /\ rt_data[2].after = <<"QT">>
    /\ rt_jsonl.ok
    /\ Len(rt_jsonl.val) = 2
    /\ rt_jsonl.val[1][<<"after">>] = <<"NL">>

-----------------------------------------------------------------------------
(* Claims about the browser: main and interactive_mode of view_dataset.py *)

\* a command made of decimal digits, and the index it names
IsDecimal(cmd) == cmd # <<>> /\ \A k \in DOMAIN cmd : cmd[k] \in {"0", "2", "5"}

RECURSIVE DecimalValue(_)
DecimalValue(cmd) ==
    IF cmd = <<>> THEN 0
    ELSE 10 * DecimalValue(SubSeq(cmd, 1, Len(cmd) - 1))
         + (CASE cmd[Len(cmd)] = "0" -> 0 [] cmd[Len(cmd)] = "2" -> 2 [] OTHER -> 5)

\* C5: a jump command whose index is outside 1..len(dataset) prints the
\* out-of-range message, leaves the position where it was and the loop running.
C5_JumpOutOfRange ==
    [][(/\ view_pc = "command"
        /\ IsDecimal(view_cmd)
        /\ DecimalValue(view_cmd) \notin 1..Len(view_data))
       => (/\ view_last' = "invalid_index"
           /\ current' = current
           /\ view_pc' = "browse")]_vars

\* the loop running on at the third of three records after an out-of-range jump
C5_Witness ==
    /\ view_pc = "browse"
    /\ Len(view_data) = 3
    /\ current = 2
    /\ view_last = "invalid_index"

\* the path with the other extension
OtherExtension(path) == IF path = JsonPath THEN JsonlPath ELSE JsonPath

Present(path) == path \in DOMAIN view_files

\* C9 as stated: when the requested path is absent the browser loads the path with
\* the other extension if it exists, in both directions, and reports that the
\* dataset is not found only when neither exists.
C9_FallbackBothDirections ==
    view_pc # "start" =>
        /\ (~Present(view_request) /\ Present(OtherExtension(view_request)))
               => (view_path = OtherExtension(view_request) /\ view_last # "not_found")
        /\ view_last = "not_found"
               => (~Present(view_request) /\ ~Present(OtherExtension(view_request)))

\* C9 amended: when the requested path is absent the browser probes the path with
\* ".json" replaced by ".jsonl": a request for x.json falls back to x.jsonl and loads
\* it if it exists; a request for x.jsonl is probed as x.jsonll and never falls back
\* to x.json; the dataset is reported as not found exactly when neither the
\* requested path nor the probed path exists.
C9_FallbackJsonToJsonl ==
    view_pc # "start" =>
        LET probe == IF view_request = JsonPath THEN JsonlPath ELSE JsonllPath
        IN  /\ Present(view_request) => view_path = view_request
            /\ (~Present(view_request) /\ Present(probe)) => view_path = probe
            /\ view_last = "not_found" <=> (~Present(view_request) /\ ~Present(probe))
            /\ view_last = "not_found" => view_pc = "done"
            /\ view_pc \in {"dispatch", "browse", "command"} =>
                   /\ Present(view_path)
                   /\ Len(view_data) >= 1

\* x.json asked for and absent, x.jsonl loaded in its place
C9_Witness ==
    /\ view_pc = "dispatch"
    /\ view_request = JsonPath
    /\ ~Present(JsonPath)
    /\ view_path = JsonlPath
    /\ Len(view_data) = 2

Browsing == {"browse", "command"}

\* C10: while the browser runs on n >= 1 records the position is an index in
\* 0..n-1; advance goes to the next record and from the last to the first, retreat
\* to the previous record and from the first to the last; show-full, show-marked-
\* regions and unrecognised commands leave the position where it was.
C10_CursorWraps ==
    [][LET n == Len(view_data)
       IN  /\ view_pc' \in Browsing => (current' >= 0 /\ current' <= Len(view_data') - 1)
           /\ (view_pc = "command" /\ n >= 1) =>
                  /\ view_cmd = <<"n">> =>
                         current' = IF current = n - 1 THEN 0 ELSE current + 1
                  /\ view_cmd = <<"p">> =>
                         current' = IF current = 0 THEN n - 1 ELSE current - 1
                  /\ (view_cmd \notin {<<"n">>, <<"p">>} /\ ~IsDecimal(view_cmd)) =>
                         current' = current]_vars

\* the position on the last of three records, which only advancing twice or
\* retreating from the first record reaches (no command of the model jumps there)
C10_Witness ==
    /\ view_pc = "browse"
    /\ Len(view_data) = 3
    /\ current = 2
    /\ view_last = "prompt"

====
